---------------------------- MODULE Spec2Model ----------------------------
(***************************************************************************)
(* A model of the rttm crate: RttmSegment (one row of an RTTM file, parsed *)
(* from and formatted to a space-delimited line) and Rttm (the ordered     *)
(* collection of segments with its read loop, mutations and queries).      *)
(*                                                                         *)
(* Text is a sequence of one-character strings, so that splitting, joining *)
(* and comparing are computed character by character as the code does.     *)
(* An f64 is NaN, an infinity, or a finite value of the grid described at  *)
(* F64 below; on that grid addition, parsing and formatting are those of   *)
(* IEEE-754 binary64.                                                      *)
(***************************************************************************)
EXTENDS Integers, Sequences, FiniteSets

VARIABLES
    stage,      \* SpecSeg: "segment", "line" or "parsed"
    line,       \* SpecSeg: the text handed to RttmSegment::from_str
    src,        \* SpecSeg: <<s>> when `line` is to_string of Segment s, else <<>>
    res,        \* SpecSeg: the Result of from_str(line), Pending before it
    input,      \* SpecRead: the file: whether it opens, and its line results
    coe,        \* SpecRead: the continue_on_error argument
    pos,        \* SpecRead: number of line results the loop has consumed
    acc,        \* SpecRead: the local `segments` vector of Rttm::read
    out,        \* SpecRead: where read is: Pending, "reading", or its Result
    segments,   \* the vector inside the Rttm
    filtered,   \* SpecFilter: the vector inside the Rttm that filter returned
    last        \* the last operation on either, its argument and its return

vars == <<stage, line, src, res, input, coe, pos, acc, out,
          segments, filtered, last>>

-----------------------------------------------------------------------------
(* Text *)

\* The characters used, in ascending order of their byte value; str's Ord
\* compares bytes, so the position here decides every comparison.
Ascii ==
    <<"\t", "\n", " ", "+", "-", ".",
      "0", "1", "2", "3", "4", "5", "6", "7", "8", "9",
      "<", ">",
      "A", "E", "F", "I", "N", "P", "R", "S", "T", "X", "Y",
      "_", "a", "b", "c", "e", "f", "i", "k", "n", "p", "r", "s", "t",
      "x", "y">>

Char == {Ascii[i] : i \in DOMAIN Ascii}

CharCode(c) == CHOOSE i \in DOMAIN Ascii : Ascii[i] = c

Digits == <<"0", "1", "2", "3", "4", "5", "6", "7", "8", "9">>

IsDigit(c) == \E i \in DOMAIN Digits : Digits[i] = c

DigitVal(c) == (CHOOSE i \in DOMAIN Digits : Digits[i] = c) - 1

AllDigits(s) == \A i \in DOMAIN s : IsDigit(s[i])

\* u8::to_ascii_lowercase on the letters of Ascii.
ToLower(c) ==
    CASE c = "A" -> "a" [] c = "E" -> "e" [] c = "F" -> "f"
      [] c = "I" -> "i" [] c = "N" -> "n" [] c = "P" -> "p"
      [] c = "R" -> "r" [] c = "S" -> "s" [] c = "T" -> "t"
      [] c = "X" -> "x" [] c = "Y" -> "y" [] OTHER -> c

LowerStr(s) == [i \in DOMAIN s |-> ToLower(s[i])]

\* <str as Ord>::lt : lexicographic on bytes, a proper prefix is smaller.
RECURSIVE StrLess(_, _)
StrLess(a, b) ==
    IF b = <<>> THEN FALSE
    ELSE IF a = <<>> THEN TRUE
    ELSE IF Head(a) # Head(b) THEN CharCode(Head(a)) < CharCode(Head(b))
    ELSE StrLess(Tail(a), Tail(b))

\* Index of the first occurrence of character c in s, 0 when there is none.
RECURSIVE FindFrom(_, _, _)
FindFrom(s, c, i) ==
    IF i > Len(s) THEN 0
    ELSE IF s[i] = c THEN i
    ELSE FindFrom(s, c, i + 1)

Find(s, c) == FindFrom(s, c, 1)

\* Mutant of Split: runs of the delimiter are collapsed and empty fields
\* dropped, as str::split_whitespace would.
RECURSIVE MutSplitCollapsing(_, _)
MutSplitCollapsing(s, d) ==
    LET i == Find(s, d)
    IN  IF i = 0 THEN (IF s = <<>> THEN <<>> ELSE <<s>>)
        ELSE (IF i = 1 THEN <<>> ELSE <<SubSeq(s, 1, i - 1)>>)
             \o MutSplitCollapsing(SubSeq(s, i + 1, Len(s)), d)

\* str::split(' ') collected: every delimiter ends a field, so the empty
\* text gives one empty field and n delimiters give n + 1 fields.
RECURSIVE Split(_, _)
Split(s, d) ==
    LET i == Find(s, d)
    IN  IF i = 0 THEN <<s>>
        ELSE <<SubSeq(s, 1, i - 1)>> \o Split(SubSeq(s, i + 1, Len(s)), d)

\* [String]::join(sep): the separator between consecutive items only.
RECURSIVE Join(_, _)
Join(items, sep) ==
    IF items = <<>> THEN <<>>
    ELSE IF Len(items) = 1 THEN items[1]
    ELSE items[1] \o sep \o Join(Tail(items), sep)

RECURSIVE StripLeadingZeros(_)
StripLeadingZeros(s) ==
    IF Len(s) > 1 /\ Head(s) = "0" THEN StripLeadingZeros(Tail(s)) ELSE s

RECURSIVE StripTrailingZeros(_)
StripTrailingZeros(s) ==
    IF Len(s) > 0 /\ s[Len(s)] = "0"
    THEN StripTrailingZeros(SubSeq(s, 1, Len(s) - 1)) ELSE s

\* Value of a digit sequence (short enough for the checker's integers).
RECURSIVE DecVal(_)
DecVal(s) ==
    IF s = <<>> THEN 0
    ELSE 10 * DecVal(SubSeq(s, 1, Len(s) - 1)) + DigitVal(s[Len(s)])

\* Decimal digits of a natural number, no leading zeros.
RECURSIVE DecStr(_)
DecStr(n) ==
    IF n < 10 THEN <<Digits[n + 1]>>
    ELSE DecStr(n \div 10) \o <<Digits[(n % 10) + 1]>>

RECURSIVE Zeros(_)
Zeros(n) == IF n <= 0 THEN <<>> ELSE <<"0">> \o Zeros(n - 1)

RECURSIVE Pow2(_)
Pow2(n) == IF n <= 0 THEN 1 ELSE 2 * Pow2(n - 1)

RECURSIVE Pow10(_)
Pow10(n) == IF n <= 0 THEN 1 ELSE 10 * Pow10(n - 1)

-----------------------------------------------------------------------------
(* usize *)

\* usize::MAX on a 64-bit target, as text: 2^64 - 1.
UsizeMaxText ==
    <<"1", "8", "4", "4", "6", "7", "4", "4", "0", "7",
      "3", "7", "0", "9", "5", "5", "1", "6", "1", "5">>

\* A digit sequence without leading zeros that exceeds usize::MAX.
UsizeOverflows(d) ==
    \/ Len(d) > Len(UsizeMaxText)
    \/ Len(d) = Len(UsizeMaxText) /\ StrLess(UsizeMaxText, d)

IntErr == [ok |-> FALSE, val |-> 0]

\* str::parse::<usize>: an optional '+', then one or more digits and
\* nothing else; '-' is no sign for an unsigned type; a value above
\* usize::MAX overflows.  Every failure is a ParseIntError.
ParseUsize(s) ==
    LET body == IF s # <<>> /\ s[1] = "+" THEN Tail(s) ELSE s
    IN  IF body = <<>> \/ ~AllDigits(body) THEN IntErr
        ELSE IF UsizeOverflows(StripLeadingZeros(body)) THEN IntErr
        ELSE [ok |-> TRUE, val |-> DecVal(StripLeadingZeros(body))]

\* <usize as Display>::fmt
UsizeDisplay(n) == DecStr(n)

-----------------------------------------------------------------------------
(* f64 *)

(***************************************************************************)
(* A finite f64 of the grid is sign and magnitude, the magnitude being     *)
(* A * 2^54 + r in units of one half: A = 0 gives the halves and integers  *)
(* below 2^30 (all exact in binary64), A >= 1 the values within a small    *)
(* distance r of A * 2^53, where binary64 has run out of precision and     *)
(* additions round.  The sign is kept on zero as well.                     *)
(***************************************************************************)
NaN == [k |-> "nan", neg |-> FALSE, A |-> 0, r |-> 0]

Inf(neg) == [k |-> "inf", neg |-> neg, A |-> 0, r |-> 0]

Fin(neg, A, r) == [k |-> "fin", neg |-> neg, A |-> A, r |-> r]

\* A value binary64 has and the grid has not.
OffGrid == [k |-> "offgrid", neg |-> FALSE, A |-> 0, r |-> 0]

F64Zero == Fin(FALSE, 0, 0)

IsZero(x) == x.k = "fin" /\ x.A = 0 /\ x.r = 0

\* 2^53 = 90071992 54740992, in two limbs of base 10^8.
BigHi == 90071992

BigLo == 54740992

Limb == 100000000

\* How far (in units of 1) from A * 2^53 a parsed literal may lie.
GridSlack == 64

RECURSIVE Lg(_)
Lg(a) == IF a <= 1 THEN 0 ELSE 1 + Lg(a \div 2)

IsPow2(a) == a = Pow2(Lg(a))

\* The multiple of s nearest to r, a tie going to the even multiple
\* (round-to-nearest, ties-to-even).
RoundTo(r, s) ==
    LET q   == r \div s
        rem == r % s
    IN  IF 2 * rem < s THEN q * s
        ELSE IF 2 * rem > s THEN (q + 1) * s
        ELSE IF q % 2 = 0 THEN q * s ELSE (q + 1) * s

\* Distance (in halves) between neighbouring binary64 values just above
\* the magnitude A * 2^54 + r, A >= 1: 53 bits of mantissa.
SpacingUp(A, r) ==
    IF r < 0 /\ IsPow2(A) THEN Pow2(Lg(A) + 1) ELSE Pow2(Lg(A) + 2)

\* ... and just below it.
SpacingDown(A, r) ==
    IF r <= 0 /\ IsPow2(A) THEN Pow2(Lg(A) + 1) ELSE Pow2(Lg(A) + 2)

\* The exact magnitude A * 2^54 + r rounded to binary64.
RoundMag(A, r) ==
    IF A = 0 THEN r ELSE RoundTo(r, SpacingUp(A, r))

\* f64 + f64
F64Add(x, y) ==
    IF x.k = "nan" \/ y.k = "nan" THEN NaN
    ELSE IF x.k = "inf" /\ y.k = "inf"
         THEN (IF x.neg = y.neg THEN x ELSE NaN)
    ELSE IF x.k = "inf" THEN x
    ELSE IF y.k = "inf" THEN y
    ELSE LET sx == IF x.neg THEN -1 ELSE 1
             sy == IF y.neg THEN -1 ELSE 1
             tA == sx * x.A + sy * y.A
             tr == sx * x.r + sy * y.r
             neg == tA < 0 \/ (tA = 0 /\ tr < 0)
             mA == IF neg THEN -tA ELSE tA
             mr == IF neg THEN -tr ELSE tr
         IN  IF tA = 0 /\ tr = 0 THEN Fin(x.neg /\ y.neg, 0, 0)
             ELSE Fin(neg, mA, RoundMag(mA, mr))

\* f64 == f64 (PartialEq): NaN equals nothing, the two zeros are equal.
F64Eq(x, y) ==
    /\ x.k # "nan"
    /\ y.k # "nan"
    /\ \/ x = y
       \/ IsZero(x) /\ IsZero(y)

\* x >= 0.0 (PartialOrd): false of NaN, true of both zeros.
F64Ge0(x) ==
    \/ x.k = "inf" /\ ~x.neg
    \/ x.k = "fin" /\ (~x.neg \/ IsZero(x))

F64Err == [ok |-> FALSE, val |-> F64Zero]

F64Ok(v) == [ok |-> TRUE, val |-> v]

\* The value of the decimal d * 10^e, d without leading or trailing zeros.
DecimalValue(neg, d, e) ==
    IF e >= 0 /\ Len(d) + e <= 9
        THEN Fin(neg, 0, 2 * DecVal(d) * Pow10(e))
    ELSE IF e = -1 /\ d[Len(d)] = "5" /\ Len(d) <= 9
        THEN Fin(neg, 0, DecVal(d) \div 5)
    ELSE IF e >= 0 /\ Len(d) + e \in 10..17
        THEN LET all == d \o Zeros(e)
                 hi  == DecVal(SubSeq(all, 1, Len(all) - 8))
                 lo  == DecVal(SubSeq(all, Len(all) - 7, Len(all)))
                 off(a) == (hi - a * BigHi) * Limb + lo - a * BigLo
                 near == {a \in 1..((hi \div BigHi) + 1) :
                            /\ hi - a * BigHi \in -1..(a + 1)
                            /\ off(a) \in -GridSlack..GridSlack}
             IN  IF near = {} THEN OffGrid
                 ELSE LET a == CHOOSE a \in near : TRUE
                      IN  Fin(neg, a, RoundMag(a, 2 * off(a)))
    ELSE OffGrid

\* Mutant of F64Negative: the minus sign is read and dropped.
MutF64NegativeNever(s) == FALSE

\* The sign dec2flt takes off the front of the text.
F64Negative(s) == s # <<>> /\ s[1] = "-"

\* str::parse::<f64> (core::num::dec2flt): an optional sign, then "inf",
\* "infinity" or "nan" in any case, or digits with an optional '.' and an
\* optional exponent; at least one digit in the mantissa, at least one in
\* an exponent, nothing before or after.  Every failure is a
\* ParseFloatError.
F64Parse(s) ==
    LET signed == s # <<>> /\ s[1] \in {"+", "-"}
        neg    == F64Negative(s)
        body   == IF signed THEN Tail(s) ELSE s
        low    == LowerStr(body)
        ePos   == Find(low, "e")
        mant   == IF ePos = 0 THEN body ELSE SubSeq(body, 1, ePos - 1)
        expo   == IF ePos = 0 THEN <<>> ELSE SubSeq(body, ePos + 1, Len(body))
        eNeg   == expo # <<>> /\ expo[1] = "-"
        eDig   == IF expo # <<>> /\ expo[1] \in {"+", "-"}
                  THEN Tail(expo) ELSE expo
        dot    == Find(mant, ".")
        int    == IF dot = 0 THEN mant ELSE SubSeq(mant, 1, dot - 1)
        frac   == IF dot = 0 THEN <<>> ELSE SubSeq(mant, dot + 1, Len(mant))
        wellFormed ==
            /\ AllDigits(int)
            /\ AllDigits(frac)
            /\ Len(int) + Len(frac) >= 1
            /\ ePos # 0 => (eDig # <<>> /\ AllDigits(eDig))
        e10    == IF ePos = 0 THEN 0
                  ELSE IF eNeg THEN -DecVal(eDig) ELSE DecVal(eDig)
        d1     == StripLeadingZeros(int \o frac)
        d2     == StripTrailingZeros(d1)
    IN  IF body = <<>> THEN F64Err
        ELSE IF low = <<"n", "a", "n">> THEN F64Ok(NaN)
        ELSE IF low = <<"i", "n", "f">>
                \/ low = <<"i", "n", "f", "i", "n", "i", "t", "y">>
            THEN F64Ok(Inf(neg))
        ELSE IF ~wellFormed THEN F64Err
        ELSE IF d2 = <<>> THEN F64Ok(Fin(neg, 0, 0))
        ELSE F64Ok(DecimalValue(neg, d2,
                                e10 - Len(frac) + (Len(d1) - Len(d2))))

\* Eight digits of a limb, zero-padded.
Pad8(n) == Zeros(8 - Len(DecStr(n))) \o DecStr(n)

\* The decimal text of the integer A * 2^53 + c.
BigText(A, c) ==
    LET low == A * BigLo + c
    IN  DecStr(A * BigHi + (low \div Limb)) \o Pad8(low % Limb)

\* The integer offset c for which A * 2^53 + c is the shortest decimal
\* that parses back to the magnitude A * 2^54 + r: the one with most
\* trailing zeros among the integers that round to it, and the nearest of
\* those; the value itself when no rounder one exists.
ShortestOffset(A, r) ==
    LET up   == SpacingUp(A, r)
        down == SpacingDown(A, r)
        even == (r \div up) % 2 = 0
        inside(c) ==
            IF even THEN 2 * (2 * c - r) <= up /\ 2 * (r - 2 * c) <= down
            ELSE 2 * (2 * c - r) < up /\ 2 * (r - 2 * c) < down
        span == (r \div 2 - up)..(r \div 2 + up)
        cand(j) == {c \in span :
                      inside(c) /\ (A * BigLo + c) % Pow10(j) = 0}
        dist(c) == IF 2 * c >= r THEN 2 * c - r ELSE r - 2 * c
        js   == {j \in 1..8 : cand(j) # {}}
    IN  IF js = {} THEN r \div 2
        ELSE LET j == CHOOSE j \in js : \A i \in js : i <= j
             IN  CHOOSE c \in cand(j) : \A o \in cand(j) : dist(c) <= dist(o)

\* <f64 as Display>::fmt with no precision: the shortest decimal that
\* parses back to the same value, never in exponent form; "NaN", "inf",
\* "-inf"; an integral value without ".0"; the sign of a negative zero.
F64Display(x) ==
    IF x.k = "nan" THEN <<"N", "a", "N">>
    ELSE IF x.k = "inf"
        THEN (IF x.neg THEN <<"-">> ELSE <<>>) \o <<"i", "n", "f">>
    ELSE (IF x.neg THEN <<"-">> ELSE <<>>) \o
         (IF x.A = 0
          THEN DecStr(x.r \div 2) \o
               (IF x.r % 2 = 1 THEN <<".", "5">> ELSE <<>>)
          ELSE BigText(x.A, ShortestOffset(x.A, x.r)))

-----------------------------------------------------------------------------
(* RttmSegment *)

Sp == <<" ">>

Nl == <<"\n">>

\* <RttmSegment as Default>::default(): empty text, 0, 0.0.
SegmentDefault ==
    [segment_type          |-> <<>>,
     file_id               |-> <<>>,
     channel_id            |-> 0,
     turn_onset            |-> F64Zero,
     turn_duration         |-> F64Zero,
     orthography_field     |-> <<>>,
     speaker_type          |-> <<>>,
     speaker_name          |-> <<>>,
     confidence_score      |-> <<>>,
     signal_lookahead_time |-> <<>>]

\* Result<RttmSegment, RttmError>; idx is the usize carried by
\* SegmentAlignmentError.
Ok(seg) == [ok |-> TRUE, seg |-> seg, err |-> "none", idx |-> 0]

Err(kind, idx) ==
    [ok |-> FALSE, seg |-> SegmentDefault, err |-> kind, idx |-> idx]

\* No from_str has run on the current line yet.
Pending == Err("pending", 0)

\* Mutant of AlignmentIndex: the 0-based index is handed back unchanged.
MutAlignmentIndex0(idx) == idx

\* The index handed back in the catch-all arm of from_str's match.
AlignmentIndex(idx) == idx + 1

\* One arm of the match in from_str: field `value` at 0-based index i.
\* A failed numeric parse returns at once through `?`.
AssignField(segment, i, value) ==
    CASE i = 0 -> Ok([segment EXCEPT !.segment_type = value])
      [] i = 1 -> Ok([segment EXCEPT !.file_id = value])
      [] i = 2 -> LET p == ParseUsize(value)
                  IN  IF p.ok THEN Ok([segment EXCEPT !.channel_id = p.val])
                      ELSE Err("ParseIntError", 0)
      [] i = 3 -> LET p == F64Parse(value)
                  IN  IF p.ok THEN Ok([segment EXCEPT !.turn_onset = p.val])
                      ELSE Err("ParseFloatError", 0)
      [] i = 4 -> LET p == F64Parse(value)
                  IN  IF p.ok THEN Ok([segment EXCEPT !.turn_duration = p.val])
                      ELSE Err("ParseFloatError", 0)
      [] i = 5 -> Ok([segment EXCEPT !.orthography_field = value])
      [] i = 6 -> Ok([segment EXCEPT !.speaker_type = value])
      [] i = 7 -> Ok([segment EXCEPT !.speaker_name = value])
      [] i = 8 -> Ok([segment EXCEPT !.confidence_score = value])
      [] i = 9 -> Ok([segment EXCEPT !.signal_lookahead_time = value])
      [] OTHER -> Err("SegmentAlignmentError", AlignmentIndex(i))

\* The for loop of from_str over split.enumerate(), from 0-based index i.
RECURSIVE FromStrLoop(_, _, _)
FromStrLoop(split, i, segment) ==
    IF i >= Len(split) THEN Ok(segment)
    ELSE LET step == AssignField(segment, i, split[i + 1])
         IN  IF step.ok THEN FromStrLoop(split, i + 1, step.seg) ELSE step

\* RttmSegment::from_str
FromStr(value) == FromStrLoop(Split(value, " "), 0, SegmentDefault)

\* Mutant of ToString: speaker_type and speaker_name change places.
MutToStringSwapped(seg) ==
    seg.segment_type \o Sp \o seg.file_id \o Sp \o
    UsizeDisplay(seg.channel_id) \o Sp \o
    F64Display(seg.turn_onset) \o Sp \o
    F64Display(seg.turn_duration) \o Sp \o
    seg.orthography_field \o Sp \o seg.speaker_name \o Sp \o
    seg.speaker_type \o Sp \o seg.confidence_score \o Sp \o
    seg.signal_lookahead_time

\* RttmSegment::to_string: format!("{} {} {} {} {} {} {} {} {} {}", ...)
ToString(seg) ==
    seg.segment_type \o Sp \o seg.file_id \o Sp \o
    UsizeDisplay(seg.channel_id) \o Sp \o
    F64Display(seg.turn_onset) \o Sp \o
    F64Display(seg.turn_duration) \o Sp \o
    seg.orthography_field \o Sp \o seg.speaker_type \o Sp \o
    seg.speaker_name \o Sp \o seg.confidence_score \o Sp \o
    seg.signal_lookahead_time

\* Duration::from_secs_f64 panics on a negative, NaN or infinite argument
\* (and beyond u64 seconds, which no grid value reaches); RttmSegment::
\* duration returns normally exactly when this holds.
DurationDefined(seg) ==
    seg.turn_duration.k = "fin" /\ F64Ge0(seg.turn_duration)

\* RttmSegment::timespan
Timespan(seg) ==
    <<seg.turn_onset, F64Add(seg.turn_onset, seg.turn_duration)>>

-----------------------------------------------------------------------------
(* SpecSeg: from_str and to_string on bounded inputs *)

\* Most fields a generated line has; 10 is a full row.
MaxFields == 12

\* Texts for the seven text columns (0, 1, 5, 6, 7, 8, 9): ordinary ones,
\* all empty (consecutive delimiters), and a row with a tab, an empty text
\* and texts that look like signs.
TextRows ==
    { << <<"S", "P", "K">>, <<"f", "1">>, <<"<", "N", "A", ">">>,
         <<"<", "N", ">">>, <<"s", "1">>, <<"c">>, <<"k">> >>,
      << <<>>, <<>>, <<>>, <<>>, <<>>, <<>>, <<>> >>,
      << <<"\t">>, <<>>, <<"+">>, <<"a", "\t">>, <<"X">>, <<"-">>,
         <<".">> >> }

\* Texts for column 2 (channel_id).
IntLits ==
    { <<"1">>, <<"0">>, <<"+", "1">>, <<"0", "0", "7">>, <<"-", "1">>,
      <<>>, <<"x", "1">>,
      <<"1", "8", "4", "4", "6", "7", "4", "4", "0", "7",
        "3", "7", "0", "9", "5", "5", "1", "6", "1", "6">> }

\* Texts for column 3 (turn_onset).
OnsetLits ==
    { <<"0">>, <<"1", ".", "5">>, <<"-", "1", ".", "5">>, <<"N", "a", "N">>,
      <<>>, <<"1", ".", "5", ".", "2">>, <<"1", "e", "1">>, <<"-", "0">> }

\* Texts for column 4 (turn_duration).
DurLits ==
    { <<"2", ".", "5">>, <<"-", "2">>, <<"i", "n", "f">>,
      <<"-", "i", "n", "f">>, <<"x">>, <<".", "5">>, <<"+", "4", ".">>,
      <<"9", "0", "0", "7", "1", "9", "9", "2", "5", "4", "7", "4", "0",
        "9", "9", "3">> }

\* The ten columns of a row, then surplus fields up to MaxFields.
Row(t, c, o, d) ==
    <<t[1], t[2], c, o, d, t[3], t[4], t[5], t[6], t[7]>>
    \o [i \in 1..(MaxFields - 10) |-> <<"e">>]

Lines ==
    { Join(SubSeq(Row(t, c, o, d), 1, n), Sp) :
        t \in TextRows, c \in IntLits, o \in OnsetLits, d \in DurLits,
        n \in 0..MaxFields }

\* Text fields of explicitly constructed Segments; the last two rows have
\* a field with the delimiter inside.
SegTexts ==
    TextRows \cup
    { << <<"S">>, <<"f">>, <<"o">>, <<"t">>, <<"a", " ", "b">>, <<"c">>,
         <<"k">> >>,
      << <<" ">>, <<"f">>, <<>>, <<>>, <<"s">>, <<>>, <<>> >> }

F64Pool ==
    { F64Zero, Fin(TRUE, 0, 0), Fin(FALSE, 0, 3), Fin(FALSE, 0, 47),
      Fin(TRUE, 0, 3), NaN, Inf(FALSE), Inf(TRUE), Fin(FALSE, 1, 0),
      Fin(FALSE, 2, 16) }

SegPool ==
    { [segment_type          |-> t[1],
       file_id               |-> t[2],
       channel_id            |-> c,
       turn_onset            |-> o,
       turn_duration         |-> d,
       orthography_field     |-> t[3],
       speaker_type          |-> t[4],
       speaker_name          |-> t[5],
       confidence_score      |-> t[6],
       signal_lookahead_time |-> t[7]] :
        t \in SegTexts, c \in {0, 1, 12}, o \in F64Pool, d \in F64Pool }

\* Result<Rttm, RttmError> of Rttm::read, and the two places read can be
\* before it returns.
RttmOk(segs) == [ok |-> TRUE, rttm |-> segs, err |-> "none", idx |-> 0]

RttmErr(kind, idx) == [ok |-> FALSE, rttm |-> <<>>, err |-> kind, idx |-> idx]

NotCalled == RttmErr("pending", 0)

Reading == RttmErr("reading", 0)

Returned(o) == o.ok \/ o.err \notin {"pending", "reading"}

SegIdle == stage = "idle" /\ line = <<>> /\ src = <<>> /\ res = Pending

ReadIdle ==
    /\ input = [opens |-> TRUE, lines |-> <<>>] /\ coe = FALSE
    /\ pos = 0 /\ acc = <<>> /\ out = NotCalled

\* Option<RttmSegment>: <<>> is None, <<s>> is Some(s).
NoneSeg == <<>>

Some(seg) == <<seg>>

\* The record of the last operation on a collection: its name, its index
\* or speaker argument, what it returned, and the vector it found.
Op(op, index, speaker, ret, before) ==
    [op |-> op, index |-> index, speaker |-> speaker, ret |-> ret,
     before |-> before]

CollIdle ==
    segments = <<>> /\ filtered = <<>> /\ last = Op("new", 0, <<>>, NoneSeg, <<>>)

InitSeg ==
    /\ \/ stage = "line" /\ line \in Lines /\ src = <<>>
       \/ stage = "segment" /\ line = <<>> /\ src \in {<<s>> : s \in SegPool}
    /\ res = Pending
    /\ ReadIdle
    /\ CollIdle

\* seg.to_string() on a constructed Segment.
Format ==
    /\ stage = "segment"
    /\ line' = ToString(src[1])
    /\ stage' = "line"
    /\ UNCHANGED <<src, res, input, coe, pos, acc, out,
                   segments, filtered, last>>

\* RttmSegment::from_str(line)
Parse ==
    /\ stage = "line"
    /\ res' = FromStr(line)
    /\ stage' = "parsed"
    /\ UNCHANGED <<line, src, input, coe, pos, acc, out,
                   segments, filtered, last>>

NextSeg == Format \/ Parse

SpecSeg == InitSeg /\ [][NextSeg]_vars

-----------------------------------------------------------------------------
(* Properties of from_str and to_string, checked under SpecSeg *)

TextFields(seg) ==
    {seg.segment_type, seg.file_id, seg.orthography_field, seg.speaker_type,
     seg.speaker_name, seg.confidence_score, seg.signal_lookahead_time}

NoSpace(seg) == \A t \in TextFields(seg) : Find(t, " ") = 0

\* The positions of the delimiter in a line, and the fields they bound:
\* field i (0-based) lies between the i-th and the (i+1)-th delimiter.
DelimAt(l) == {p \in DOMAIN l : l[p] = " "}

NumFields(l) == Cardinality(DelimAt(l)) + 1

Bound(l, i) ==
    IF i = 0 THEN 0
    ELSE IF i > Cardinality(DelimAt(l)) THEN Len(l) + 1
    ELSE CHOOSE p \in DelimAt(l) :
            Cardinality({q \in DelimAt(l) : q < p}) = i - 1

Field(l, i) == SubSeq(l, Bound(l, i) + 1, Bound(l, i + 1) - 1)

\* Fields 2, 3 and 4 of the line, where present, are well-typed.
IntTyped(l) == NumFields(l) > 2 => ParseUsize(Field(l, 2)).ok

OnsetTyped(l) == NumFields(l) > 3 => F64Parse(Field(l, 3)).ok

DurTyped(l) == NumFields(l) > 4 => F64Parse(Field(l, 4)).ok

WellTyped(l) == IntTyped(l) /\ OnsetTyped(l) /\ DurTyped(l)

C2_AlwaysAlignment ==
    (stage = "parsed" /\ NumFields(line) > 10)
        => ~res.ok /\ res.err = "SegmentAlignmentError" /\ res.idx = 11

\* C2 amended: a line with more than 10 fields never gives a Segment; it
\* fails with SegmentAlignmentError carrying 11, whatever the number of
\* surplus fields, when fields 2, 3 and 4 are well-typed, and otherwise
\* with the parse error of the first ill-typed one of them.
C2_AlignmentAfterNumeric ==
    (stage = "parsed" /\ NumFields(line) > 10)
        => /\ ~res.ok
           /\ WellTyped(line)
                => res.err = "SegmentAlignmentError" /\ res.idx = 11
           /\ ~IntTyped(line) => res.err = "ParseIntError"
           /\ (IntTyped(line) /\ ~(OnsetTyped(line) /\ DurTyped(line)))
                => res.err = "ParseFloatError"

\* C2 witness: twelve well-typed fields, alignment error carrying 11.
C2_Witness ==
    /\ stage = "parsed" /\ NumFields(line) = 12 /\ WellTyped(line)
    /\ res.err = "SegmentAlignmentError" /\ res.idx = 11

\* What from_str must return for a line of at most ten well-typed fields:
\* every present field in its attribute, every absent one at its default.
Positional(l) ==
    LET n == NumFields(l)
        txt(i) == IF i < n THEN Field(l, i) ELSE <<>>
    IN  [segment_type          |-> txt(0),
         file_id               |-> txt(1),
         channel_id            |-> IF 2 < n THEN ParseUsize(Field(l, 2)).val
                                   ELSE 0,
         turn_onset            |-> IF 3 < n THEN F64Parse(Field(l, 3)).val
                                   ELSE F64Zero,
         turn_duration         |-> IF 4 < n THEN F64Parse(Field(l, 4)).val
                                   ELSE F64Zero,
         orthography_field     |-> txt(5),
         speaker_type          |-> txt(6),
         speaker_name          |-> txt(7),
         confidence_score      |-> txt(8),
         signal_lookahead_time |-> txt(9)]

DenotesNonNegative(t) ==
    LET body == IF t # <<>> /\ t[1] \in {"+", "-"} THEN Tail(t) ELSE t
        low  == LowerStr(body)
        ePos == Find(low, "e")
        mant == IF ePos = 0 THEN body ELSE SubSeq(body, 1, ePos - 1)
        digs == {i \in DOMAIN mant : IsDigit(mant[i])}
    IN  /\ low # <<"n", "a", "n">>
        /\ \/ t = <<>>
           \/ t[1] # "-"
           \/ digs # {} /\ \A i \in digs : mant[i] = "0"

-----------------------------------------------------------------------------
(* SpecRead: Rttm::read over a file of bounded length *)

\* Most line results a generated file has.
MaxLines == 3

\* io::Result<String> yielded by BufReader::lines(): a fault, or a line.
Fault == [fault |-> TRUE, text |-> <<>>]

Readable(text) == [fault |-> FALSE, text |-> text]

\* A full row for speaker x, a blank line, a two-field line, a row whose
\* channel is no integer, a row whose onset is no float, an 11-field row.
FileLines ==
    { <<"S", " ", "f", " ", "1", " ", "0", " ", "1", ".", "5", " ",
        "o", " ", "t", " ", "x", " ", "c", " ", "k">>,
      <<>>,
      <<"S", " ", "y">>,
      <<"S", " ", "f", " ", "x">>,
      <<"S", " ", "f", " ", "1", " ", "1", ".", "5", ".", "2">>,
      <<"S", " ", "f", " ", "1", " ", "0", " ", "1", " ",
        "o", " ", "t", " ", "x", " ", "c", " ", "k", " ", "e">> }

LineResults == {Fault} \cup {Readable(t) : t \in FileLines}

Files ==
    UNION { [1..n -> LineResults] : n \in 0..MaxLines }

InitRead ==
    /\ input \in [opens : BOOLEAN, lines : Files]
    /\ coe \in BOOLEAN
    /\ pos = 0
    /\ acc = <<>>
    /\ out = NotCalled
    /\ SegIdle
    /\ CollIdle

\* The `?` on from_str's Result, then segments.push(segment).
PushOrReturn(parsed) ==
    IF parsed.ok THEN [do |-> "push", seg |-> parsed.seg]
    ELSE [do |-> "return", err |-> RttmErr(parsed.err, parsed.idx)]

\* What a mutant does instead: a line that fails to parse is skipped.
PushOrSkip(parsed) ==
    IF parsed.ok THEN [do |-> "push", seg |-> parsed.seg]
    ELSE [do |-> "continue"]

\* Mutant of LineStep: continue_on_error also skips a line that fails to
\* parse.
MutLineStepTolerant(lineResult, continueOnError) ==
    IF lineResult.fault
    THEN (IF continueOnError THEN [do |-> "continue"]
          ELSE [do |-> "return", err |-> RttmErr("IOError", 0)])
    ELSE IF continueOnError THEN PushOrSkip(FromStr(lineResult.text))
    ELSE PushOrReturn(FromStr(lineResult.text))

\* The body of the for loop of Rttm::read on one line result: `continue`
\* on a fault under continue_on_error, `?` on a fault otherwise, `?` on
\* from_str, else push.
LineStep(lineResult, continueOnError) ==
    IF lineResult.fault
    THEN (IF continueOnError THEN [do |-> "continue"]
          ELSE [do |-> "return", err |-> RttmErr("IOError", 0)])
    ELSE PushOrReturn(FromStr(lineResult.text))

\* File::open(path)?
Open ==
    /\ out = NotCalled
    /\ out' = IF input.opens THEN Reading ELSE RttmErr("IOError", 0)
    /\ UNCHANGED <<stage, line, src, res, input, coe, pos, acc,
                   segments, filtered, last>>

\* One iteration of `for line_result in lines`.
Iterate ==
    /\ out = Reading
    /\ pos < Len(input.lines)
    /\ \E step \in {LineStep(input.lines[pos + 1], coe)} :
           /\ pos' = pos + 1
           /\ acc' = IF step.do = "push" THEN Append(acc, step.seg) ELSE acc
           /\ out' = IF step.do = "return" THEN step.err ELSE out
    /\ UNCHANGED <<stage, line, src, res, input, coe,
                   segments, filtered, last>>

\* The iterator is exhausted: Ok(Self(segments)).
Finish ==
    /\ out = Reading
    /\ pos = Len(input.lines)
    /\ out' = RttmOk(acc)
    /\ UNCHANGED <<stage, line, src, res, input, coe, pos, acc,
                   segments, filtered, last>>

NextRead == Open \/ Iterate \/ Finish

SpecRead == InitRead /\ [][NextRead]_vars

\* The first line result at which read stops: a fault when faults are not
\* tolerated, or a readable line that does not parse; 0 when there is none.
Stops(f, c, i) ==
    \/ f[i].fault /\ ~c
    \/ ~f[i].fault /\ ~FromStr(f[i].text).ok

FirstStop(f, c) ==
    IF \E i \in DOMAIN f : Stops(f, c, i)
    THEN CHOOSE i \in DOMAIN f :
            Stops(f, c, i) /\ \A j \in 1..(i - 1) : ~Stops(f, c, j)
    ELSE 0

\* The k-th (1-based) readable line result of the file.
ReadableAt(f) == {i \in DOMAIN f : ~f[i].fault}

KthReadable(f, k) ==
    CHOOSE i \in ReadableAt(f) :
        Cardinality({j \in ReadableAt(f) : j < i}) = k - 1

\* C4: the error policy of read.  With either value of continue_on_error
\* the first reached line that fails to parse makes read return that
\* parse error and no Collection; a line-read fault is skipped under
\* continue_on_error = true and aborts read with IOError under false;
\* when read succeeds the Collection holds exactly the parsed Segments of
\* the readable lines, one per line, blank lines included, in line order.
C4_ReadPolicy ==
    (Returned(out) /\ input.opens) =>
        LET f    == input.lines
            stop == FirstStop(f, coe)
        IN  IF stop = 0
            THEN /\ out.ok
                 /\ Len(out.rttm) = Cardinality(ReadableAt(f))
                 /\ ~coe => ReadableAt(f) = DOMAIN f
                 /\ \A k \in 1..Len(out.rttm) :
                       Ok(out.rttm[k]) = FromStr(f[KthReadable(f, k)].text)
            ELSE /\ ~out.ok
                 /\ out.rttm = <<>>
                 /\ IF f[stop].fault
                    THEN ~coe /\ out.err = "IOError"
                    ELSE LET p == FromStr(f[stop].text)
                         IN  out.err = p.err /\ out.idx = p.idx

\* C4 witness: under continue_on_error a fault is skipped and the read
\* succeeds with two Segments, one of them from a blank line.
C4_Witness ==
    /\ out.ok /\ coe
    /\ Len(input.lines) = 3
    /\ input.lines[2] = Fault
    /\ input.lines[3] = Readable(<<>>)
    /\ Len(out.rttm) = 2
    /\ out.rttm[2] = SegmentDefault

-----------------------------------------------------------------------------
(* Rttm: the collection *)

\* Most Segments a collection is grown to.
MaxLen == 3

\* Rttm::add: push a clone at the end.
VecPush(v, seg) == Append(v, seg)

\* Rttm::pop: Vec::pop, None on the empty vector.
VecPop(v) ==
    IF v = <<>> THEN [vec |-> v, ret |-> NoneSeg]
    ELSE [vec |-> SubSeq(v, 1, Len(v) - 1), ret |-> Some(v[Len(v)])]

\* Mutant of VecRemove: Vec::swap_remove, the last element takes the place
\* of the removed one.
MutVecSwapRemove(v, index) ==
    IF index + 1 = Len(v) THEN SubSeq(v, 1, Len(v) - 1)
    ELSE [i \in 1..(Len(v) - 1) |-> IF i = index + 1 THEN v[Len(v)] ELSE v[i]]

\* Vec::remove(index), 0-based: the later elements shift down by one.
VecRemove(v, index) ==
    SubSeq(v, 1, index) \o SubSeq(v, index + 2, Len(v))

\* Rttm::del: None when get(index) is None, else Some(remove(index)).
VecDel(v, index) ==
    IF index < Len(v)
    THEN [vec |-> VecRemove(v, index), ret |-> Some(v[index + 1])]
    ELSE [vec |-> v, ret |-> NoneSeg]

\* The speaker names of a collection, as a set (the HashSet<&str>).
NameSet(v) == {v[i].speaker_name : i \in DOMAIN v}

\* A set of texts as the ascending sequence: what names.sort() leaves,
\* whatever order the HashSet was iterated in.
RECURSIVE SortedNames(_)
SortedNames(S) ==
    IF S = {} THEN <<>>
    ELSE LET m == CHOOSE x \in S : \A y \in S \ {x} : StrLess(x, y)
         IN  <<m>> \o SortedNames(S \ {m})

\* Mutant of Speakers: the names in order of first appearance, neither
\* sorted nor deduplicated.
MutSpeakersAsSeen(v) == [i \in DOMAIN v |-> v[i].speaker_name]

\* Rttm::speakers
Speakers(v) == SortedNames(NameSet(v))

\* Rttm::num_speakers
NumSpeakers(v) == Cardinality(NameSet(v))

\* The closure of find, filter and duration_speaker:
\* &seg.speaker_name == speaker.
SpeakerIs(seg, speaker) == seg.speaker_name = speaker

\* Rttm::find
FindSpeaker(v, speaker) ==
    IF \E i \in DOMAIN v : SpeakerIs(v[i], speaker)
    THEN Some(v[CHOOSE i \in DOMAIN v :
                  /\ SpeakerIs(v[i], speaker)
                  /\ \A j \in 1..(i - 1) : ~SpeakerIs(v[j], speaker)])
    ELSE NoneSeg

\* Mutant of Filter: names are compared without regard to case.
MutFilterIgnoreCase(v, speaker) ==
    SelectSeq(v, LAMBDA seg : LowerStr(seg.speaker_name) = LowerStr(speaker))

\* Rttm::filter: the matching Segments, cloned, in a new Rttm.
Filter(v, speaker) == SelectSeq(v, LAMBDA seg : SpeakerIs(seg, speaker))

\* <f64 as Sum>::sum: a left fold of + over the items.  The neutral
\* element it starts from is a zero (which of the two depends on the
\* toolchain; both compare equal to 0.0).
RECURSIVE F64SumFrom(_, _)
F64SumFrom(total, items) ==
    IF items = <<>> THEN total
    ELSE F64SumFrom(F64Add(total, Head(items)), Tail(items))

F64Sum(items) == F64SumFrom(F64Zero, items)

Durations(v) == [i \in DOMAIN v |-> v[i].turn_duration]

\* Mutant of DurationSpeaker: names are compared without regard to case.
MutDurationSpeakerIgnoreCase(v, speaker) ==
    F64Sum(Durations(MutFilterIgnoreCase(v, speaker)))

\* Rttm::duration_speaker
DurationSpeaker(v, speaker) ==
    F64Sum(Durations(SelectSeq(v, LAMBDA seg : SpeakerIs(seg, speaker))))

\* Rttm::duration_total
DurationTotal(v) == F64Sum(Durations(v))

\* Rttm::timespans
Timespans(v) == [i \in DOMAIN v |-> Timespan(v[i])]

\* Mutant of RttmToString: every line is terminated, the last one too.
RECURSIVE MutRttmToStringTerminated(_)
MutRttmToStringTerminated(v) ==
    IF v = <<>> THEN <<>>
    ELSE ToString(Head(v)) \o Nl \o MutRttmToStringTerminated(Tail(v))

\* Rttm::to_string, which Rttm::write hands to write_all unchanged.
RttmToString(v) == Join([i \in DOMAIN v |-> ToString(v[i])], Nl)

-----------------------------------------------------------------------------
(* Spec: add, pop and del on one Rttm *)

Turn(name, onset, duration) ==
    [segment_type          |-> <<"S">>,
     file_id               |-> <<"f">>,
     channel_id            |-> 1,
     turn_onset            |-> onset,
     turn_duration         |-> duration,
     orthography_field     |-> <<"o">>,
     speaker_type          |-> <<"t">>,
     speaker_name          |-> name,
     confidence_score      |-> <<"c">>,
     signal_lookahead_time |-> <<"k">>]

\* Two turns of x (2^53 s and 1.5 s), turns of y (1 s), X (0.5 s) and
\* xa (2 s), and a turn with no speaker name and no duration.
TurnX  == Turn(<<"x">>, F64Zero, Fin(FALSE, 1, 0))

TurnX2 == Turn(<<"x">>, Fin(FALSE, 0, 3), Fin(FALSE, 0, 3))

TurnY  == Turn(<<"y">>, Fin(FALSE, 1, 0), Fin(FALSE, 0, 2))

CollPool ==
    { TurnX, TurnX2, TurnY,
      Turn(<<"X">>, Fin(FALSE, 0, 6), Fin(FALSE, 0, 1)),
      Turn(<<"x", "a">>, Fin(FALSE, 0, 7), Fin(FALSE, 0, 4)),
      Turn(<<>>, F64Zero, F64Zero) }

\* Speaker names asked for; z is in no collection.
SpeakerArgs == {<<"x">>, <<"X">>, <<"y">>, <<"z">>}

Init ==
    /\ segments = <<>>
    /\ filtered = <<>>
    /\ last = Op("new", 0, <<>>, NoneSeg, <<>>)
    /\ SegIdle
    /\ ReadIdle

\* rttm.add(&seg)
Add(seg) ==
    /\ Len(segments) < MaxLen
    /\ segments' = VecPush(segments, seg)
    /\ last' = Op("add", 0, <<>>, NoneSeg, segments)
    /\ UNCHANGED <<stage, line, src, res, input, coe, pos, acc, out, filtered>>

\* rttm.pop()
Pop ==
    /\ segments' = VecPop(segments).vec
    /\ last' = Op("pop", 0, <<>>, VecPop(segments).ret, segments)
    /\ UNCHANGED <<stage, line, src, res, input, coe, pos, acc, out, filtered>>

\* rttm.del(index)
Del(index) ==
    /\ segments' = VecDel(segments, index).vec
    /\ last' = Op("del", index, <<>>, VecDel(segments, index).ret, segments)
    /\ UNCHANGED <<stage, line, src, res, input, coe, pos, acc, out, filtered>>

\* rttm.speakers()
CallSpeakers ==
    /\ last' = Op("speakers", 0, <<>>, Speakers(segments), segments)
    /\ UNCHANGED <<stage, line, src, res, input, coe, pos, acc, out,
                   filtered, segments>>

\* rttm.num_speakers()
CallNumSpeakers ==
    /\ last' = Op("num_speakers", 0, <<>>, NumSpeakers(segments), segments)
    /\ UNCHANGED <<stage, line, src, res, input, coe, pos, acc, out,
                   filtered, segments>>

\* rttm.find(speaker)
CallFind(speaker) ==
    /\ last' = Op("find", 0, speaker, FindSpeaker(segments, speaker), segments)
    /\ UNCHANGED <<stage, line, src, res, input, coe, pos, acc, out,
                   filtered, segments>>

\* rttm.timespans()
CallTimespans ==
    /\ last' = Op("timespans", 0, <<>>, Timespans(segments), segments)
    /\ UNCHANGED <<stage, line, src, res, input, coe, pos, acc, out,
                   filtered, segments>>

\* rttm.duration_speaker(speaker)
CallDurationSpeaker(speaker) ==
    /\ last' = Op("duration_speaker", 0, speaker,
                  DurationSpeaker(segments, speaker), segments)
    /\ UNCHANGED <<stage, line, src, res, input, coe, pos, acc, out,
                   filtered, segments>>

\* rttm.duration_total()
CallDurationTotal ==
    /\ last' = Op("duration_total", 0, <<>>, DurationTotal(segments), segments)
    /\ UNCHANGED <<stage, line, src, res, input, coe, pos, acc, out,
                   filtered, segments>>

\* rttm.to_string(), and the bytes rttm.write(path) hands to write_all.
CallToString ==
    /\ last' = Op("to_string", 0, <<>>, RttmToString(segments), segments)
    /\ UNCHANGED <<stage, line, src, res, input, coe, pos, acc, out,
                   filtered, segments>>

Next ==
    \/ \E seg \in CollPool : Add(seg)
    \/ Pop
    \/ \E index \in 0..MaxLen : Del(index)
    \/ CallSpeakers
    \/ CallNumSpeakers
    \/ \E speaker \in SpeakerArgs : CallFind(speaker)
    \/ CallTimespans
    \/ \E speaker \in SpeakerArgs : CallDurationSpeaker(speaker)
    \/ CallDurationTotal
    \/ CallToString

Spec == Init /\ [][Next]_vars

-----------------------------------------------------------------------------
(* SpecFilter: filter, then add, pop and del on the Rttm it returned *)

FilterPool == {TurnX, TurnX2, Turn(<<"X">>, Fin(FALSE, 0, 6), Fin(FALSE, 0, 1))}

RECURSIVE SeqsUpTo(_, _)
SeqsUpTo(S, n) ==
    IF n = 0 THEN {<<>>}
    ELSE SeqsUpTo(S, n - 1) \cup
         {Append(v, x) : v \in SeqsUpTo(S, n - 1), x \in S}

\* The source collection is any that add can have built.
InitFilter ==
    /\ segments \in SeqsUpTo(FilterPool, MaxLen)
    /\ filtered = <<>>
    /\ last = Op("new", 0, <<>>, NoneSeg, segments)
    /\ SegIdle
    /\ ReadIdle

\* let f = rttm.filter(speaker)
DoFilter(speaker) ==
    /\ filtered' = Filter(segments, speaker)
    /\ last' = Op("filter", 0, speaker, NoneSeg, segments)
    /\ UNCHANGED <<stage, line, src, res, input, coe, pos, acc, out, segments>>

\* f.add(&seg)
AddF(seg) ==
    /\ last.op # "new"
    /\ Len(filtered) < MaxLen
    /\ filtered' = VecPush(filtered, seg)
    /\ last' = Op("addF", 0, <<>>, NoneSeg, segments)
    /\ UNCHANGED <<stage, line, src, res, input, coe, pos, acc, out, segments>>

\* f.pop()
PopF ==
    /\ last.op # "new"
    /\ filtered' = VecPop(filtered).vec
    /\ last' = Op("popF", 0, <<>>, VecPop(filtered).ret, segments)
    /\ UNCHANGED <<stage, line, src, res, input, coe, pos, acc, out, segments>>

\* f.del(index)
DelF(index) ==
    /\ last.op # "new"
    /\ filtered' = VecDel(filtered, index).vec
    /\ last' = Op("delF", index, <<>>, VecDel(filtered, index).ret, segments)
    /\ UNCHANGED <<stage, line, src, res, input, coe, pos, acc, out, segments>>

NextFilter ==
    \/ \E speaker \in SpeakerArgs : DoFilter(speaker)
    \/ \E seg \in FilterPool : AddF(seg)
    \/ PopF
    \/ \E index \in 0..MaxLen : DelF(index)

SpecFilter == InitFilter /\ [][NextFilter]_vars

-----------------------------------------------------------------------------
(* Properties of the collection *)

\* C5: del(index) with index >= length returns None and leaves the
\* sequence as it found it; with index < length it returns the Segment that
\* was at index, the length falls by exactly 1, the elements before index
\* keep their position and the elements after it move down by one.
C5_DelBounds ==
    last.op = "del" =>
        IF last.index >= Len(last.before)
        THEN /\ last.ret = NoneSeg
             /\ segments = last.before
        ELSE /\ last.ret = Some(last.before[last.index + 1])
             /\ Len(segments) = Len(last.before) - 1
             /\ \A j \in 1..last.index : segments[j] = last.before[j]
             /\ \A j \in (last.index + 1)..Len(segments) :
                    segments[j] = last.before[j + 1]

\* del(0) on three Segments of which the last differs from the other two:
\* a swap-removal would leave them in another order.
C5_Witness ==
    /\ last.op = "del"
    /\ last.index = 0
    /\ Len(last.before) = 3
    /\ last.before[3] # last.before[2]
    /\ last.before[3] # last.before[1]
    /\ Len(segments) = 2

\* The durations duration_speaker returns for the names of speakers(), in
\* the order of speakers().
PerSpeaker(v) ==
    [i \in DOMAIN Speakers(v) |-> DurationSpeaker(v, Speakers(v)[i])]

SignedA(x) == IF x.neg THEN 0 - x.A ELSE x.A

SignedR(x) == IF x.neg THEN 0 - x.r ELSE x.r

\* x + y is exact: both are finite and the sum was not rounded.
AddIsExact(x, y) ==
    /\ x.k = "fin"
    /\ y.k = "fin"
    /\ F64Add(x, y).k = "fin"
    /\ SignedA(F64Add(x, y)) = SignedA(x) + SignedA(y)
    /\ SignedR(F64Add(x, y)) = SignedR(x) + SignedR(y)

\* Every addition of the fold that sums items onto total is exact.
RECURSIVE SumIsExact(_, _)
SumIsExact(total, items) ==
    \/ items = <<>>
    \/ /\ AddIsExact(total, Head(items))
       /\ SumIsExact(F64Add(total, Head(items)), Tail(items))

\* No addition rounds: not in duration_total, not in any duration_speaker
\* of a speaker present, not in the sum of these.
AllSumsExact(v) ==
    /\ SumIsExact(F64Zero, Durations(v))
    /\ \A i \in DOMAIN v :
           SumIsExact(F64Zero,
               Durations(SelectSeq(v,
                   LAMBDA seg : seg.speaker_name = v[i].speaker_name)))
    /\ SumIsExact(F64Zero, PerSpeaker(v))

NoMatch(v, speaker) == \A i \in DOMAIN v : v[i].speaker_name # speaker

\* C6 as stated: duration_total() equals the sum of duration_speaker(s) over
\* the speakers s of speakers(), for every Collection; it is 0 for the empty
\* Collection and duration_speaker(s) is 0 when no Segment matches.
C6_AggregateEqual ==
    /\ last.op = "duration_total" =>
           /\ F64Eq(last.ret, F64Sum(PerSpeaker(last.before)))
           /\ last.before = <<>> => F64Eq(last.ret, F64Zero)
    /\ (last.op = "duration_speaker" /\ NoMatch(last.before, last.speaker)) =>
           F64Eq(last.ret, F64Zero)

\* C6, amended: duration_total() equals the sum of duration_speaker(s) over
\* the speakers s of speakers() whenever no addition of either computation
\* rounds; it is 0 for the empty Collection and duration_speaker(s) is 0
\* when no Segment matches.
C6_AggregateEqualWhenExact ==
    /\ last.op = "duration_total" =>
           /\ AllSumsExact(last.before) =>
                  F64Eq(last.ret, F64Sum(PerSpeaker(last.before)))
           /\ last.before = <<>> => F64Eq(last.ret, F64Zero)
    /\ (last.op = "duration_speaker" /\ NoMatch(last.before, last.speaker)) =>
           F64Eq(last.ret, F64Zero)

\* duration_total() on three Segments, the turns of one speaker around a
\* turn of another, all sums exact: the two computations add in different
\* orders.
C6_Witness ==
    /\ last.op = "duration_total"
    /\ Len(last.before) = 3
    /\ last.before[1].speaker_name = last.before[3].speaker_name
    /\ last.before[1].speaker_name # last.before[2].speaker_name
    /\ AllSumsExact(last.before)
    /\ \A i \in 1..3 : ~IsZero(last.before[i].turn_duration)
    /\ ~IsZero(last.ret)

\* a sorts strictly before b, byte by byte (Ord for str): at the first
\* position where they differ a has the smaller byte, or a ends there.
LexLess(a, b) ==
    \E k \in 1..(Len(a) + 1) :
        /\ k <= Len(b)
        /\ \A j \in 1..(k - 1) : a[j] = b[j]
        /\ (k = Len(a) + 1 \/ CharCode(a[k]) < CharCode(b[k]))

\* C8: speakers() returns the names present in strictly ascending
\* lexicographic order (so none repeated), none missing, none added, and
\* num_speakers() equals the length of speakers().
C8_SpeakersSorted ==
    /\ last.op = "speakers" =>
           /\ \A i \in 1..(Len(last.ret) - 1) :
                  LexLess(last.ret[i], last.ret[i + 1])
           /\ {last.ret[i] : i \in DOMAIN last.ret} =
                  {last.before[i].speaker_name : i \in DOMAIN last.before}
           /\ NumSpeakers(last.before) = Len(last.ret)
    /\ last.op = "num_speakers" =>
           last.ret = Len(Speakers(last.before))

\* speakers() on three Segments that hold two names, the greater one first
\* and twice.
C8_Witness ==
    /\ last.op = "speakers"
    /\ Len(last.before) = 3
    /\ Len(last.ret) = 2
    /\ LexLess(last.before[2].speaker_name, last.before[1].speaker_name)
    /\ last.before[3].speaker_name = last.before[1].speaker_name

\* The positions of the newline in a text, and the lines they bound: line i
\* (1-based) lies between the (i-1)-th and the i-th newline.
BreakAt(t) == {p \in DOMAIN t : t[p] = "\n"}

LineBound(t, i) ==
    IF i = 0 THEN 0
    ELSE IF i > Cardinality(BreakAt(t)) THEN Len(t) + 1
    ELSE CHOOSE p \in BreakAt(t) :
            Cardinality({q \in BreakAt(t) : q < p}) = i - 1

TextLine(t, i) == SubSeq(t, LineBound(t, i - 1) + 1, LineBound(t, i) - 1)

\* The ten fields of a Segment as texts, in the order of the format.
FieldTexts(seg) ==
    << seg.segment_type, seg.file_id, UsizeDisplay(seg.channel_id),
       F64Display(seg.turn_onset), F64Display(seg.turn_duration),
       seg.orthography_field, seg.speaker_type, seg.speaker_name,
       seg.confidence_score, seg.signal_lookahead_time >>

\* C9: the text of a Collection of n Segments is empty for n = 0; otherwise
\* it holds exactly n - 1 newlines, none of them last, line i is the
\* serialization of Segment i, and that line holds exactly nine spaces that
\* bound the ten fields of the Segment in the fixed order.
C9_Layout ==
    last.op = "to_string" =>
        /\ last.before = <<>> => last.ret = <<>>
        /\ last.before # <<>> =>
               /\ Cardinality(BreakAt(last.ret)) = Len(last.before) - 1
               /\ last.ret # <<>>
               /\ last.ret[Len(last.ret)] # "\n"
        /\ \A i \in DOMAIN last.before :
               /\ TextLine(last.ret, i) = ToString(last.before[i])
               /\ Cardinality(DelimAt(TextLine(last.ret, i))) = 9
               /\ \A f \in 1..10 :
                      Field(TextLine(last.ret, i), f - 1) =
                          FieldTexts(last.before[i])[f]

\* to_string() on three Segments, one of them with an empty field.
C9_Witness ==
    /\ last.op = "to_string"
    /\ Len(last.before) = 3
    /\ Cardinality(BreakAt(last.ret)) = 2
    /\ \E i \in 1..3 : last.before[i].speaker_name = <<>>

-----------------------------------------------------------------------------
(* Properties of filter *)

\* The indices of the Segments of v whose speaker_name is s, and the k-th
\* of them in ascending order.
Matching(v, s) == {i \in DOMAIN v : v[i].speaker_name = s}

KthOf(I, k) == CHOOSE i \in I : Cardinality({j \in I : j <= i}) = k

\* C7: c.filter(s) is the Segments of c whose speaker_name is exactly s, in
\* their order in c, so each has that name and there are at most as many as
\* in c; filter leaves c as it was, and so does a later add, pop or del on
\* the Collection filter returned.
C7_FilterCorrect ==
    /\ last.op = "filter" =>
           /\ Len(filtered) = Cardinality(Matching(last.before, last.speaker))
           /\ \A k \in DOMAIN filtered :
                  /\ filtered[k] =
                         last.before[KthOf(Matching(last.before, last.speaker), k)]
                  /\ filtered[k].speaker_name = last.speaker
           /\ Len(filtered) <= Len(last.before)
           /\ segments = last.before
    /\ last.op \in {"addF", "popF", "delF"} => segments = last.before

\* filter("x") on three Segments, the second one of "X": two are kept.
C7_Witness ==
    /\ last.op = "filter"
    /\ last.speaker = <<"x">>
    /\ Len(segments) = 3
    /\ segments[2].speaker_name = <<"X">>
    /\ Len(filtered) = 2
    /\ filtered[1] # filtered[2]

=============================================================================
